---- MODULE Spec2Model ----
(***************************************************************************)
(* The compliance engine of backend/src/routes/businessTrips.js (class     *)
(* ComplianceEngine): the rule checks, the risk scorer, the two advisor    *)
(* calls and the orchestration of analyzeCompliance.                       *)
(*                                                                         *)
(* JavaScript values are records.  A value that may be undefined carries a *)
(* has<Field> flag beside the field; null is the record Null.  Fractions   *)
(* are integers in hundredths (confidence 0.85 is 85, a score of 12.5 is   *)
(* 1250); timestamps are integer ticks, TicksPerDay of them in one day.    *)
(***************************************************************************)
EXTENDS Integers, Sequences, FiniteSets, TLC

VARIABLES
    openaiApiKey,    \* TRUE iff process.env.OPENAI_API_KEY was set at construction
    financialData,   \* argument of analyzeCompliance / checkRule
    complianceRules, \* argument of analyzeCompliance
    now,             \* the value new Date() yields during the call
    pc,              \* position of the call
    i,               \* index of the next rule of the for-of loop
    analysis,        \* the local object `analysis`
    anomalies,       \* the local `anomalies`
    result,          \* "none" | "returned" | "failed" (the promise's outcome)
    anomalyRequests, \* axios.post calls made by detectAnomalies
    recRequests,     \* axios.post calls made by generateRecommendations
    anomalyReply,    \* what the advisor answered to the anomaly request
    recReply,        \* what the advisor answered to the recommendation request
    ruleResults,     \* the outcomes of the checkRule calls made so far, in order
    posted,          \* the prompts posted to the advisor so far, in order
    req,             \* the HTTP request being dispatched (req.user included)
    res,             \* the responses sent for it so far, in order
    route,           \* the handler stack of the matched route and the position in it
    nextCalls,       \* the handlers that have called next(), in order
    call,            \* the service call under way: its method and arguments
    ret,             \* what the service call resolved to
    sent             \* the requests and messages sent to external services, in order

vars == <<openaiApiKey, financialData, complianceRules, now, pc, i, analysis,
          anomalies, result, anomalyRequests, recRequests, anomalyReply,
          recReply, ruleResults, posted, req, res, route, nextCalls, call, ret,
          sent>>

\* The state of the compliance engine
engineVars == <<openaiApiKey, financialData, complianceRules, now, pc, i, analysis,
                anomalies, result, anomalyRequests, recRequests, anomalyReply,
                recReply, ruleResults, posted>>

\* The state of the HTTP layer and of the other services
serviceVars == <<req, res, route, nextCalls, call, ret, sent>>

----------------------------------------------------------------------------
(* Bounds of the model *)

MaxRules == 2
MaxAnomalies == 2
MaxMonths == 4
MaxViolations == 5
MaxMixedViolations == 1

\* The longest message text, in atoms
MaxAtoms == 2

(* Units *)

Hundredths == 100
TicksPerDay == 2

(* Constants of the program *)

DefaultThreshold == 10000
RecentMonths == 3
MaxScore == 100
DefaultConfidence == 50

SeqsUpTo(S, n) == UNION {[1..k -> S] : k \in 0..n}

RECURSIVE SumSeq(_)
SumSeq(s) == IF s = <<>> THEN 0 ELSE Head(s) + SumSeq(Tail(s))

----------------------------------------------------------------------------
(* Values *)

Null == [isNull |-> TRUE]

\* No request is being dispatched and no service call is under way
NoServiceActivity ==
    /\ req = Null
    /\ res = <<>>
    /\ route = Null
    /\ nextCalls = <<>>
    /\ call = Null
    /\ ret = Null
    /\ sent = <<>>

NoViolation == [violationType |-> "none"]

Violation(ruleId, violationType, severity, description, detectedAt, aiConfidence) ==
    [ruleId |-> ruleId, violationType |-> violationType, severity |-> severity,
     description |-> description, detectedAt |-> detectedAt,
     aiConfidence |-> aiConfidence]

Rule(id, severity, deadline_days, type, hasThreshold, threshold) ==
    [isNull |-> FALSE, id |-> id, severity |-> severity,
     deadline_days |-> deadline_days, hasDefinition |-> TRUE,
     type |-> type, hasThreshold |-> hasThreshold, threshold |-> threshold]

RuleWithoutDefinition ==
    [isNull |-> FALSE, id |-> 0, severity |-> "high", deadline_days |-> 1,
     hasDefinition |-> FALSE, type |-> "none", hasThreshold |-> FALSE,
     threshold |-> 0]

Snapshot(hasDate, date, hasRevenue, revenue) ==
    [isNull |-> FALSE, hasLastSubmissionDate |-> hasDate,
     lastSubmissionDate |-> date, hasMonthlyRevenue |-> hasRevenue,
     monthlyRevenue |-> revenue]

Anomaly(severity, hasConfidence, confidence) ==
    [isNull |-> FALSE, severity |-> severity, hasConfidence |-> hasConfidence,
     confidence |-> confidence]

EmptyAnalysis ==
    [violations |-> <<>>, riskScore |-> 0, recommendations |-> <<>>,
     insights |-> <<>>]

Return(v) == [raised |-> FALSE, value |-> v]
Raise(v) == [raised |-> TRUE, value |-> v]

----------------------------------------------------------------------------
(* Rule Evaluator *)

\* const ruleThreshold = rule.rule_definition.threshold || 10000;
ruleThreshold(rule) ==
    IF rule.hasThreshold /\ rule.threshold # 0
    THEN rule.threshold
    ELSE DefaultThreshold

\* recentRevenue taking the whole series instead of its last three entries
recentRevenueWhole(monthlyRevenue) == monthlyRevenue

\* monthlyRevenue.slice(-3)
recentRevenue(monthlyRevenue) ==
    LET n == Len(monthlyRevenue)
        k == IF n < RecentMonths THEN n ELSE RecentMonths
    IN SubSeq(monthlyRevenue, n - k + 1, n)

\* recentRevenue.reduce((sum, r) => sum + r.amount, 0)
revenueSum(recent) == SumSeq([j \in 1..Len(recent) |-> recent[j].amount])

\* Math.floor((new Date() - new Date(lastSubmissionDate)) / (1000*60*60*24))
daysSinceSubmission(data, t) == (t - data.lastSubmissionDate) \div TicksPerDay

\* checkReportSubmission with the deadline day itself counted as overdue (>=)
checkReportSubmissionInclusive(data, rule, t) ==
    IF ~data.hasLastSubmissionDate
    THEN Violation(rule.id, "missing_submission", rule.severity,
                   [text |-> "No <name> found"], t, 100)
    ELSE IF daysSinceSubmission(data, t) >= rule.deadline_days
         THEN Violation(rule.id, "overdue_submission", rule.severity,
                        [text |-> "<name> is <days> days overdue",
                         days |-> daysSinceSubmission(data, t) - rule.deadline_days],
                        t, 100)
         ELSE NoViolation

checkReportSubmission(data, rule, t) ==
    LET deadlineDays == rule.deadline_days
    IN IF ~data.hasLastSubmissionDate
       THEN Violation(rule.id, "missing_submission", rule.severity,
                      [text |-> "No <name> found"], t, 100)
       ELSE IF daysSinceSubmission(data, t) > deadlineDays
            THEN Violation(rule.id, "overdue_submission", rule.severity,
                           [text |-> "<name> is <days> days overdue",
                            days |-> daysSinceSubmission(data, t) - deadlineDays],
                           t, 100)
            ELSE NoViolation

\* avgRevenue < ruleThreshold, with avgRevenue = sum / length and length > 0
checkRevenueTracking(data, rule, t) ==
    IF ~data.hasMonthlyRevenue \/ Len(data.monthlyRevenue) = 0
    THEN Violation(rule.id, "missing_revenue_data", rule.severity,
                   [text |-> "Monthly revenue data is missing"], t, 100)
    ELSE LET recent == recentRevenue(data.monthlyRevenue)
             sum == revenueSum(recent)
         IN IF sum < ruleThreshold(rule) * Len(recent)
            THEN Violation(rule.id, "low_revenue", "medium",
                           [text |-> "Average monthly revenue (<avg>) below threshold (<threshold>)",
                            sum |-> sum, months |-> Len(recent),
                            threshold |-> ruleThreshold(rule)],
                           t, 85)
            ELSE NoViolation

\* The try block of checkRule.  It throws a TypeError when rule is null
\* (rule.rule_definition), when rule_definition is undefined (.type), when the
\* snapshot is null (the destructuring in the two checks), and for
\* tax_compliance and trip_documentation, whose methods the class does not define.
checkRuleBody(data, rule, t) ==
    IF rule.isNull \/ ~rule.hasDefinition
    THEN Raise(NoViolation)
    ELSE CASE rule.type = "report_submission" ->
                IF data.isNull THEN Raise(NoViolation)
                ELSE Return(checkReportSubmission(data, rule, t))
           [] rule.type = "revenue_tracking" ->
                IF data.isNull THEN Raise(NoViolation)
                ELSE Return(checkRevenueTracking(data, rule, t))
           [] rule.type = "tax_compliance" -> Raise(NoViolation)
           [] rule.type = "trip_documentation" -> Raise(NoViolation)
           [] OTHER -> Return(NoViolation)

\* The snapshot after a check whose revenue_tracking branch took the recent
\* months with monthlyRevenue.splice(-3), which removes them from the series
snapshotAfterSplice(data, rule) ==
    IF /\ ~data.isNull
       /\ ~rule.isNull
       /\ rule.hasDefinition
       /\ rule.type = "revenue_tracking"
       /\ data.hasMonthlyRevenue
    THEN [data EXCEPT !.monthlyRevenue =
             SubSeq(@, 1, IF Len(@) > RecentMonths THEN Len(@) - RecentMonths ELSE 0)]
    ELSE data

\* The snapshot after checkRule(data, rule): the checks destructure and read
\* data and rule, assign to no field of either, and slice(-3) copies the months
snapshotAfterCheck(data, rule) == data

\* checkRule without its try/catch
checkRuleNoCatch(data, rule, t) == checkRuleBody(data, rule, t)

\* The catch block of checkRule evaluates rule.id for its log line, which throws
\* again when rule is null; every other error becomes `return null`.
checkRule(data, rule, t) ==
    LET body == checkRuleBody(data, rule, t)
    IN IF ~body.raised THEN body
       ELSE IF rule.isNull THEN Raise(NoViolation)
       ELSE Return(NoViolation)

----------------------------------------------------------------------------
(* Risk Scorer *)

\* violationPoints with the high and medium values swapped
violationPointsSwapped(severity) ==
    CASE severity = "critical" -> 25
      [] severity = "high" -> 10
      [] severity = "medium" -> 15
      [] severity = "low" -> 5
      [] OTHER -> 0

violationPoints(severity) ==
    CASE severity = "critical" -> 25
      [] severity = "high" -> 15
      [] severity = "medium" -> 10
      [] severity = "low" -> 5
      [] OTHER -> 0

anomalyPoints(severity) ==
    CASE severity = "critical" -> 20
      [] severity = "high" -> 12
      [] severity = "medium" -> 8
      [] severity = "low" -> 3
      [] OTHER -> 0

\* const confidenceWeight = anomaly.confidence || 0.5;
confidenceWeight(anomaly) ==
    IF anomaly.hasConfidence /\ anomaly.confidence # 0
    THEN anomaly.confidence
    ELSE DefaultConfidence

\* Math.round: the nearest integer, a half rounding up
MathRound(x) == (x + Hundredths \div 2) \div Hundredths

MathMin(a, b) == IF a < b THEN a ELSE b

\* The sum before rounding, in hundredths
rawScore(violations, anomalyList) ==
    SumSeq([j \in 1..Len(violations) |->
               Hundredths * violationPoints(violations[j].severity)])
    + SumSeq([j \in 1..Len(anomalyList) |->
               anomalyPoints(anomalyList[j].severity) * confidenceWeight(anomalyList[j])])

\* anomaly.confidence on a null element throws a TypeError
calculateRiskScore(violations, anomalyList) ==
    IF \E j \in 1..Len(anomalyList) : anomalyList[j].isNull
    THEN Raise(0)
    ELSE Return(MathMin(MathRound(rawScore(violations, anomalyList)), MaxScore))

----------------------------------------------------------------------------
(* Anomaly Advisor *)

\* What an axios.post can come to: a rejected promise, or a response whose
\* choices[0].message.content is not JSON, is JSON but no array, or is an array.
FailureKinds == {"transport_error", "not_json", "json_non_array"}

Reply(kind, content) == [kind |-> kind, content |-> content]

NoReply == Reply("none", <<>>)

\* JSON.parse(aiResponse) followed by Array.isArray
parseArray(reply) ==
    IF reply.kind = "not_json" THEN <<>>
    ELSE IF reply.kind = "json_array" THEN reply.content
    ELSE <<>>

\* detectAnomalies without its inner try/catch around JSON.parse, the parse
\* error escaping to the caller
detectAnomaliesUncaught(key, reply) ==
    IF ~key THEN Return(<<>>)
    ELSE IF reply.kind = "transport_error" THEN Return(<<>>)
    ELSE IF reply.kind = "not_json" THEN Raise(<<>>)
    ELSE Return(parseArray(reply))

\* The guard of detectAnomalies: the request is sent iff the key is configured
sendsAnomalyRequest(key) == key

\* The value detectAnomalies resolves to; reply is what its request came to
detectAnomalies(key, reply) ==
    IF ~sendsAnomalyRequest(key) THEN Return(<<>>)
    ELSE IF reply.kind = "transport_error" THEN Return(<<>>)
    ELSE Return(parseArray(reply))

\* The guard of generateRecommendations without its test of the violations
sendsRecommendationRequestWithKey(key, a) == key

\* The guard of generateRecommendations: the request is sent iff this holds
sendsRecommendationRequest(key, a) == key /\ Len(a.violations) # 0

\* The value generateRecommendations resolves to; reply is what its request came to
generateRecommendations(key, a, reply) ==
    IF ~sendsRecommendationRequest(key, a) THEN Return(<<>>)
    ELSE IF reply.kind = "transport_error" THEN Return(<<>>)
    ELSE Return(parseArray(reply))

\* What a prompt is made of.  detectAnomalies interpolates JSON.stringify(data);
\* generateRecommendations interpolates the violations and the risk score.
anomalyPrompt(data) == [data |-> data]

\* recommendationPrompt without the "Risk Score:" line
recommendationPromptOfViolations(a) ==
    [violations |-> a.violations, riskScore |-> 0]

recommendationPrompt(a) ==
    [violations |-> a.violations, riskScore |-> a.riskScore]

\* One axios.post to the chat-completions endpoint
Post(to, prompt) == [to |-> to, prompt |-> prompt]

----------------------------------------------------------------------------
(* Inputs *)

Severities == {"critical", "high", "medium", "low", "info"}
RuleSeverities == {"critical", "low"}
Deadlines == {1, 2}
Thresholds == {<<FALSE, 0>>, <<TRUE, 0>>, <<TRUE, 12000>>}
Amounts == {5000, 12000}
SubmissionDates == {1, 5, 10}
Now == 8

RuleTemplates ==
    {Null, RuleWithoutDefinition}
    \cup {Rule(0, s, d, "report_submission", FALSE, 0) :
            s \in RuleSeverities, d \in Deadlines}
    \cup {Rule(0, s, 1, "revenue_tracking", th[1], th[2]) :
            s \in RuleSeverities, th \in Thresholds}
    \cup {Rule(0, "high", 1, ty, FALSE, 0) :
            ty \in {"tax_compliance", "trip_documentation", "unknown_type"}}

RevenueSeries == SeqsUpTo({[amount |-> a] : a \in Amounts}, MaxMonths)

Snapshots ==
    {Null}
    \cup {Snapshot(FALSE, 0, FALSE, <<>>)}
    \cup {Snapshot(FALSE, 0, TRUE, m) : m \in RevenueSeries}
    \cup {Snapshot(TRUE, d, FALSE, <<>>) : d \in SubmissionDates}
    \cup {Snapshot(TRUE, d, TRUE, m) : d \in SubmissionDates, m \in RevenueSeries}

\* The inputs of the orchestrator's runs
EngineRuleTemplates ==
    {Null, RuleWithoutDefinition,
     Rule(0, "critical", 1, "report_submission", FALSE, 0),
     Rule(0, "low", 1, "revenue_tracking", FALSE, 0),
     Rule(0, "high", 1, "tax_compliance", FALSE, 0)}

EngineSnapshots ==
    {Snapshot(FALSE, 0, FALSE, <<>>),
     Snapshot(TRUE, 5, TRUE, <<[amount |-> 12000]>>),
     Snapshot(TRUE, 1, TRUE, <<[amount |-> 5000]>>)}

EngineAnomalies ==
    {Null, Anomaly("critical", TRUE, 100), Anomaly("low", FALSE, 0)}

Recommendation ==
    [priority |-> "high", action |-> "submit", description |-> "text",
     timeline |-> "30 days"]

AnomalyReplies ==
    {Reply(k, <<>>) : k \in FailureKinds}
    \cup {Reply("json_array", c) : c \in SeqsUpTo(EngineAnomalies, MaxAnomalies)}

RecommendationReplies ==
    {Reply(k, <<>>) : k \in FailureKinds}
    \cup {Reply("json_array", c) : c \in {<<>>, <<Recommendation>>}}

\* Rule records fetched for a company carry distinct ids
withIds(templates) ==
    [k \in 1..Len(templates) |->
        IF templates[k].isNull THEN Null ELSE [templates[k] EXCEPT !.id = k]]

\* The inputs of the scorer's runs
ScoreAnomalies ==
    {Null}
    \cup {Anomaly(s, FALSE, 0) : s \in Severities}
    \cup {Anomaly(s, TRUE, c) : s \in {"critical", "low"}, c \in {0, 25, 200, -100}}

ScoreInputs ==
    {<<v, <<>>>> : v \in SeqsUpTo({[severity |-> s] : s \in Severities}, MaxViolations)}
    \cup {<<v, a>> :
            v \in SeqsUpTo({[severity |-> s] : s \in Severities}, MaxMixedViolations),
            a \in SeqsUpTo(ScoreAnomalies, MaxAnomalies)}

----------------------------------------------------------------------------
(* Compliance Orchestrator: one analyzeCompliance call on the engine *)

Init ==
    /\ openaiApiKey \in BOOLEAN
    /\ financialData = Null
    /\ complianceRules = <<>>
    /\ now = 0
    /\ pc = "idle"
    /\ i = 1
    /\ analysis = EmptyAnalysis
    /\ anomalies = <<>>
    /\ result = "none"
    /\ anomalyRequests = 0
    /\ recRequests = 0
    /\ anomalyReply = NoReply
    /\ recReply = NoReply
    /\ ruleResults = <<>>
    /\ posted = <<>>
    /\ NoServiceActivity

\* The call is made: `analysis` is created and the loop over the rules begins
analyzeCompliance ==
    /\ pc = "idle"
    /\ \E data \in EngineSnapshots, templates \in SeqsUpTo(EngineRuleTemplates, MaxRules) :
          /\ financialData' = data
          /\ complianceRules' = withIds(templates)
    /\ now' = Now
    /\ analysis' = EmptyAnalysis
    /\ i' = 1
    /\ pc' = "rules"
    /\ UNCHANGED <<openaiApiKey, anomalies, result, anomalyRequests, recRequests,
                   anomalyReply, recReply, ruleResults, posted>>
    /\ UNCHANGED serviceVars

\* catch (error) { throw new Error('Failed to analyze compliance data') }
fails ==
    /\ result' = "failed"
    /\ pc' = "done"

\* analysis.violations.unshift(violation): the violation put in front
pushViolationFront(a, violation) ==
    [a EXCEPT !.violations = <<violation>> \o @]

\* analysis.violations.push(violation)
pushViolation(a, violation) ==
    [a EXCEPT !.violations = Append(@, violation)]

\* One iteration of the loop: await this.checkRule(financialData, rule)
checkRuleStep ==
    /\ pc = "rules"
    /\ i <= Len(complianceRules)
    /\ LET r == checkRule(financialData, complianceRules[i], now)
       IN /\ ruleResults' = Append(ruleResults, r)
          /\ IF r.raised
             THEN /\ fails
                  /\ UNCHANGED <<analysis, i>>
             ELSE /\ analysis' =
                        IF r.value # NoViolation
                        THEN pushViolation(analysis, r.value)
                        ELSE analysis
                  /\ i' = i + 1
                  /\ UNCHANGED <<pc, result>>
    /\ financialData' = snapshotAfterCheck(financialData, complianceRules[i])
    /\ UNCHANGED <<openaiApiKey, complianceRules, now, anomalies,
                   anomalyRequests, recRequests, anomalyReply, recReply, posted>>
    /\ UNCHANGED serviceVars

\* The call's continuation once detectAnomalies has settled with reply: the
\* insights, the risk score, and generateRecommendations up to its own request
afterDetectAnomalies(reply) ==
    LET detected == detectAnomalies(openaiApiKey, reply)
        withInsights == [analysis EXCEPT !.insights = @ \o detected.value]
        score == calculateRiskScore(analysis.violations, detected.value)
        scored == [withInsights EXCEPT !.riskScore = score.value]
    IN /\ anomalyReply' = reply
       /\ IF detected.raised
          THEN /\ fails
               /\ UNCHANGED <<analysis, anomalies, recRequests, posted>>
          ELSE /\ anomalies' = detected.value
               /\ IF score.raised
                  THEN /\ fails
                       /\ analysis' = withInsights
                       /\ UNCHANGED <<recRequests, posted>>
                  ELSE /\ analysis' = scored
                       /\ IF sendsRecommendationRequest(openaiApiKey, scored)
                          THEN /\ recRequests' = recRequests + 1
                               /\ posted' = Append(posted,
                                     Post("recommendations", recommendationPrompt(scored)))
                               /\ pc' = "awaitRecommendations"
                               /\ UNCHANGED result
                          ELSE /\ result' = "returned"
                               /\ pc' = "done"
                               /\ UNCHANGED <<recRequests, posted>>

\* The loop is over: this.detectAnomalies(financialData) is called.  Without a
\* key it resolves to [] at once; with a key it posts its request and waits.
callDetectAnomalies ==
    /\ pc = "rules"
    /\ i > Len(complianceRules)
    /\ IF sendsAnomalyRequest(openaiApiKey)
       THEN /\ anomalyRequests' = anomalyRequests + 1
            /\ posted' = Append(posted, Post("anomalies", anomalyPrompt(financialData)))
            /\ pc' = "awaitAnomalies"
            /\ UNCHANGED <<analysis, anomalies, result, recRequests, anomalyReply>>
       ELSE /\ afterDetectAnomalies(NoReply)
            /\ UNCHANGED anomalyRequests
    /\ UNCHANGED <<openaiApiKey, financialData, complianceRules, now, i,
                   recReply, ruleResults>>
    /\ UNCHANGED serviceVars

\* anomalyResponse with a retry: a rejected request is posted again
anomalyResponseRetrying ==
    /\ pc = "awaitAnomalies"
    /\ \E reply \in AnomalyReplies :
          IF reply.kind = "transport_error"
          THEN /\ anomalyRequests' = anomalyRequests + 1
               /\ posted' = Append(posted, Post("anomalies", anomalyPrompt(financialData)))
               /\ UNCHANGED <<pc, analysis, anomalies, result, recRequests,
                              anomalyReply>>
          ELSE /\ afterDetectAnomalies(reply)
               /\ UNCHANGED anomalyRequests
    /\ UNCHANGED <<openaiApiKey, financialData, complianceRules, now, i,
                   recReply, ruleResults>>
    /\ UNCHANGED serviceVars

\* The advisor settles the anomaly request
anomalyResponse ==
    /\ pc = "awaitAnomalies"
    /\ \E reply \in AnomalyReplies : afterDetectAnomalies(reply)
    /\ UNCHANGED <<openaiApiKey, financialData, complianceRules, now, i,
                   anomalyRequests, recReply, ruleResults>>
    /\ UNCHANGED serviceVars

\* The advisor settles the recommendation request; the call returns `analysis`
recommendationResponse ==
    /\ pc = "awaitRecommendations"
    /\ \E reply \in RecommendationReplies :
          LET recs == generateRecommendations(openaiApiKey, analysis, reply)
          IN /\ recReply' = reply
             /\ IF recs.raised
                THEN /\ fails
                     /\ UNCHANGED analysis
                ELSE /\ analysis' = [analysis EXCEPT !.recommendations = recs.value]
                     /\ result' = "returned"
                     /\ pc' = "done"
    /\ UNCHANGED <<openaiApiKey, financialData, complianceRules, now, i, anomalies,
                   anomalyRequests, recRequests, anomalyReply, ruleResults, posted>>
    /\ UNCHANGED serviceVars

Next ==
    \/ analyzeCompliance
    \/ checkRuleStep
    \/ callDetectAnomalies
    \/ anomalyResponse
    \/ recommendationResponse

Spec == Init /\ [][Next]_vars

\* The event loop runs the call's own continuations; nothing obliges the advisor
\* to answer, and axios.post is given no timeout.
FairSpec ==
    /\ Spec
    /\ WF_vars(analyzeCompliance)
    /\ WF_vars(checkRuleStep)
    /\ WF_vars(callDetectAnomalies)

----------------------------------------------------------------------------
(* The Rule Evaluator on its own: one checkRule call on a snapshot and a rule *)

InitRule ==
    /\ openaiApiKey = FALSE
    /\ financialData \in Snapshots
    /\ \E template \in RuleTemplates : complianceRules = withIds(<<template>>)
    /\ now = Now
    /\ pc = "rule"
    /\ i = 1
    /\ analysis = EmptyAnalysis
    /\ anomalies = <<>>
    /\ result = "none"
    /\ anomalyRequests = 0
    /\ recRequests = 0
    /\ anomalyReply = NoReply
    /\ recReply = NoReply
    /\ ruleResults = <<>>
    /\ posted = <<>>
    /\ NoServiceActivity

applyCheckRule ==
    /\ pc = "rule"
    /\ ruleResults' = <<checkRule(financialData, complianceRules[1], now)>>
    /\ pc' = "checked"
    /\ financialData' = snapshotAfterCheck(financialData, complianceRules[1])
    /\ UNCHANGED <<openaiApiKey, complianceRules, now, i, analysis,
                   anomalies, result, anomalyRequests, recRequests, anomalyReply,
                   recReply, posted>>
    /\ UNCHANGED serviceVars

NextRule == applyCheckRule

SpecRule == InitRule /\ [][NextRule]_vars

----------------------------------------------------------------------------
(* The Risk Scorer on its own: one calculateRiskScore call on two lists *)

InitScore ==
    /\ openaiApiKey = FALSE
    /\ financialData = Null
    /\ complianceRules = <<>>
    /\ now = Now
    /\ pc = "score"
    /\ i = 1
    /\ \E input \in ScoreInputs :
          /\ analysis = [EmptyAnalysis EXCEPT !.violations = input[1]]
          /\ anomalies = input[2]
    /\ result = "none"
    /\ anomalyRequests = 0
    /\ recRequests = 0
    /\ anomalyReply = NoReply
    /\ recReply = NoReply
    /\ ruleResults = <<>>
    /\ posted = <<>>
    /\ NoServiceActivity

applyCalculateRiskScore ==
    /\ pc = "score"
    /\ LET score == calculateRiskScore(analysis.violations, anomalies)
       IN /\ analysis' = [analysis EXCEPT !.riskScore = score.value]
          /\ result' = IF score.raised THEN "failed" ELSE "returned"
    /\ pc' = "scored"
    /\ UNCHANGED <<openaiApiKey, financialData, complianceRules, now, i, anomalies,
                   anomalyRequests, recRequests, anomalyReply, recReply, ruleResults,
                   posted>>
    /\ UNCHANGED serviceVars

NextScore == applyCalculateRiskScore

SpecScore == InitScore /\ [][NextScore]_vars

----------------------------------------------------------------------------
(* Concurrent calls on the one exported engine.  Every route handler awaits  *)
(* analyzeCompliance on the same instance, so calls interleave at their      *)
(* await points.  Here the variables of a call are functions over Calls;     *)
(* openaiApiKey, a field of the instance, and the clock are shared.          *)

Calls == {"a", "b"}

ConcurrentRuleLists ==
    {<<>>,
     <<Null>>,
     <<Rule(0, "critical", 1, "report_submission", FALSE, 0)>>,
     <<Rule(0, "low", 1, "revenue_tracking", FALSE, 0),
       Rule(0, "high", 1, "report_submission", FALSE, 0)>>}

ConcurrentSnapshots ==
    {Snapshot(FALSE, 0, FALSE, <<>>),
     Snapshot(TRUE, 1, TRUE, <<[amount |-> 5000]>>)}

ConcurrentAnomalyReplies ==
    {Reply("transport_error", <<>>),
     Reply("json_array", <<Anomaly("critical", TRUE, 100)>>)}

ConcurrentRecommendationReplies ==
    {Reply("not_json", <<>>), Reply("json_array", <<Recommendation>>)}

\* `const analysis = {...}` shared by every call, as a field of the instance
\* would be
analysisSlotShared(c) == "a"

\* `const analysis = {...}` is a local of the call: each call has its own
analysisSlot(c) == c

InitConcurrent ==
    /\ openaiApiKey \in BOOLEAN
    /\ financialData = [c \in Calls |-> Null]
    /\ complianceRules = [c \in Calls |-> <<>>]
    /\ now = Now
    /\ pc = [c \in Calls |-> "idle"]
    /\ i = [c \in Calls |-> 1]
    /\ analysis = [c \in Calls |-> EmptyAnalysis]
    /\ anomalies = [c \in Calls |-> <<>>]
    /\ result = [c \in Calls |-> "none"]
    /\ anomalyRequests = [c \in Calls |-> 0]
    /\ recRequests = [c \in Calls |-> 0]
    /\ anomalyReply = [c \in Calls |-> NoReply]
    /\ recReply = [c \in Calls |-> NoReply]
    /\ ruleResults = [c \in Calls |-> <<>>]
    /\ posted = [c \in Calls |-> <<>>]
    /\ NoServiceActivity

\* Call c is made
analyzeComplianceOf(c) ==
    /\ pc[c] = "idle"
    /\ \E data \in ConcurrentSnapshots, templates \in ConcurrentRuleLists :
          /\ financialData' = [financialData EXCEPT ![c] = data]
          /\ complianceRules' = [complianceRules EXCEPT ![c] = withIds(templates)]
    /\ analysis' = [analysis EXCEPT ![analysisSlot(c)] = EmptyAnalysis]
    /\ pc' = [pc EXCEPT ![c] = "rules"]
    /\ UNCHANGED <<openaiApiKey, now, i, anomalies, result, anomalyRequests,
                   recRequests, anomalyReply, recReply, ruleResults, posted>>
    /\ UNCHANGED serviceVars

\* Call c rejects with 'Failed to analyze compliance data'
failsOf(c) ==
    /\ result' = [result EXCEPT ![c] = "failed"]
    /\ pc' = [pc EXCEPT ![c] = "done"]

\* Call c returns `analysis`
returnsOf(c) ==
    /\ result' = [result EXCEPT ![c] = "returned"]
    /\ pc' = [pc EXCEPT ![c] = "done"]

\* One iteration of call c's loop over its rules
checkRuleStepOf(c) ==
    /\ pc[c] = "rules"
    /\ i[c] <= Len(complianceRules[c])
    /\ LET r == checkRule(financialData[c], complianceRules[c][i[c]], now)
           a == analysis[analysisSlot(c)]
       IN /\ ruleResults' = [ruleResults EXCEPT ![c] = Append(@, r)]
          /\ IF r.raised
             THEN /\ failsOf(c)
                  /\ UNCHANGED <<analysis, i>>
             ELSE /\ analysis' =
                        IF r.value # NoViolation
                        THEN [analysis EXCEPT ![analysisSlot(c)] =
                                 pushViolation(a, r.value)]
                        ELSE analysis
                  /\ i' = [i EXCEPT ![c] = @ + 1]
                  /\ UNCHANGED <<pc, result>>
    /\ UNCHANGED <<openaiApiKey, financialData, complianceRules, now, anomalies,
                   anomalyRequests, recRequests, anomalyReply, recReply, posted>>
    /\ UNCHANGED serviceVars

\* Call c's continuation once its detectAnomalies has settled with reply
afterDetectAnomaliesOf(c, reply) ==
    LET a == analysis[analysisSlot(c)]
        detected == detectAnomalies(openaiApiKey, reply)
        withInsights == [a EXCEPT !.insights = @ \o detected.value]
        score == calculateRiskScore(a.violations, detected.value)
        scored == [withInsights EXCEPT !.riskScore = score.value]
    IN /\ anomalyReply' = [anomalyReply EXCEPT ![c] = reply]
       /\ IF detected.raised
          THEN /\ failsOf(c)
               /\ UNCHANGED <<analysis, anomalies, recRequests, posted>>
          ELSE /\ anomalies' = [anomalies EXCEPT ![c] = detected.value]
               /\ IF score.raised
                  THEN /\ failsOf(c)
                       /\ analysis' = [analysis EXCEPT ![analysisSlot(c)] = withInsights]
                       /\ UNCHANGED <<recRequests, posted>>
                  ELSE /\ analysis' = [analysis EXCEPT ![analysisSlot(c)] = scored]
                       /\ IF sendsRecommendationRequest(openaiApiKey, scored)
                          THEN /\ recRequests' = [recRequests EXCEPT ![c] = @ + 1]
                               /\ posted' = [posted EXCEPT ![c] = Append(@,
                                     Post("recommendations", recommendationPrompt(scored)))]
                               /\ pc' = [pc EXCEPT ![c] = "awaitRecommendations"]
                               /\ UNCHANGED result
                          ELSE /\ returnsOf(c)
                               /\ UNCHANGED <<recRequests, posted>>

\* Call c's loop is over: it calls detectAnomalies
callDetectAnomaliesOf(c) ==
    /\ pc[c] = "rules"
    /\ i[c] > Len(complianceRules[c])
    /\ IF sendsAnomalyRequest(openaiApiKey)
       THEN /\ anomalyRequests' = [anomalyRequests EXCEPT ![c] = @ + 1]
            /\ posted' = [posted EXCEPT ![c] =
                             Append(@, Post("anomalies", anomalyPrompt(financialData[c])))]
            /\ pc' = [pc EXCEPT ![c] = "awaitAnomalies"]
            /\ UNCHANGED <<analysis, anomalies, result, recRequests, anomalyReply>>
       ELSE /\ afterDetectAnomaliesOf(c, NoReply)
            /\ UNCHANGED anomalyRequests
    /\ UNCHANGED <<openaiApiKey, financialData, complianceRules, now, i,
                   recReply, ruleResults>>
    /\ UNCHANGED serviceVars

\* The advisor settles call c's anomaly request
anomalyResponseOf(c) ==
    /\ pc[c] = "awaitAnomalies"
    /\ \E reply \in ConcurrentAnomalyReplies : afterDetectAnomaliesOf(c, reply)
    /\ UNCHANGED <<openaiApiKey, financialData, complianceRules, now, i,
                   anomalyRequests, recReply, ruleResults>>
    /\ UNCHANGED serviceVars

\* The advisor settles call c's recommendation request; call c returns
recommendationResponseOf(c) ==
    /\ pc[c] = "awaitRecommendations"
    /\ \E reply \in ConcurrentRecommendationReplies :
          LET a == analysis[analysisSlot(c)]
              recs == generateRecommendations(openaiApiKey, a, reply)
          IN /\ recReply' = [recReply EXCEPT ![c] = reply]
             /\ IF recs.raised
                THEN /\ failsOf(c)
                     /\ UNCHANGED analysis
                ELSE /\ analysis' = [analysis EXCEPT ![analysisSlot(c)] =
                                        [a EXCEPT !.recommendations = recs.value]]
                     /\ returnsOf(c)
    /\ UNCHANGED <<openaiApiKey, financialData, complianceRules, now, i, anomalies,
                   anomalyRequests, recRequests, anomalyReply, ruleResults, posted>>
    /\ UNCHANGED serviceVars

NextConcurrent ==
    \E c \in Calls :
        \/ analyzeComplianceOf(c)
        \/ checkRuleStepOf(c)
        \/ callDetectAnomaliesOf(c)
        \/ anomalyResponseOf(c)
        \/ recommendationResponseOf(c)

SpecConcurrent == InitConcurrent /\ [][NextConcurrent]_vars

----------------------------------------------------------------------------
(* HTTP layer: the authentication middleware of middleware/auth and the      *)
(* business-trip routes.  A value that may be undefined is a record with a   *)
(* `has` flag; a middleware's run yields the responses it sent, the number   *)
(* of times it called next() and the request as it left it.                  *)

Undefined == [has |-> FALSE, value |-> ""]

Defined(v) == [has |-> TRUE, value |-> v]

\* The payload jwt.verify decodes, which becomes req.user
User(role, userType, companyId) ==
    [isNull |-> FALSE, role |-> role, userType |-> userType, companyId |-> companyId]

\* A signed token: what jwt.verify finds in it
Token(kind, payload) == [kind |-> kind, payload |-> payload]

\* The Authorization header: absent, or a scheme prefix followed by a token
NoHeader == [present |-> FALSE, prefix |-> "", token |-> Null]

Header(prefix, token) == [present |-> TRUE, prefix |-> prefix, token |-> token]

HttpRequest(authorization, valid, params, body, query, user) ==
    [authorization |-> authorization,
     valid |-> valid,
     params |-> [companyId |-> params],
     body |-> [companyId |-> body],
     query |-> [companyId |-> query],
     user |-> user]

\* res.status(status).json(...)
Respond(r, status) == [responses |-> <<status>>, nexts |-> 0, req |-> r]

\* next()
CallNext(r) == [responses |-> <<>>, nexts |-> 1, req |-> r]

\* jwt.verify(token, secret): the payload, or the error jsonwebtoken throws
jwtVerify(token) ==
    CASE token.kind = "valid" -> Return(token.payload)
      [] token.kind = "expired" -> Raise("TokenExpiredError")
      [] token.kind = "malformed" -> Raise("JsonWebTokenError")
      [] OTHER -> Raise("NotBeforeError")

\* authHeader.startsWith('Bearer ')
startsWithBearer(authHeader) == authHeader.prefix = "Bearer "

\* authMiddleware without the test of the 'Bearer ' prefix
authMiddlewareAnyScheme(r) ==
    IF ~r.authorization.present THEN Respond(r, 401)
    ELSE LET decoded == jwtVerify(r.authorization.token)
         IN IF ~decoded.raised THEN CallNext([r EXCEPT !.user = decoded.value])
            ELSE IF decoded.value = "TokenExpiredError" THEN Respond(r, 401)
            ELSE IF decoded.value = "JsonWebTokenError" THEN Respond(r, 401)
            ELSE Respond(r, 500)

authMiddleware(r) ==
    IF ~r.authorization.present THEN Respond(r, 401)
    ELSE IF ~startsWithBearer(r.authorization) THEN Respond(r, 401)
    ELSE LET decoded == jwtVerify(r.authorization.token)
         IN IF ~decoded.raised THEN CallNext([r EXCEPT !.user = decoded.value])
            ELSE IF decoded.value = "TokenExpiredError" THEN Respond(r, 401)
            ELSE IF decoded.value = "JsonWebTokenError" THEN Respond(r, 401)
            ELSE Respond(r, 500)

\* The argument of requireRole: an array of roles or a single role
RoleArray(items) == [isArray |-> TRUE, items |-> items]

SingleRole(role) == [isArray |-> FALSE, value |-> role]

\* allowedRoles when a single role string is not wrapped into an array
allowedRolesOfArray(roles) == IF roles.isArray THEN roles.items ELSE <<>>

\* Array.isArray(roles) ? roles : [roles]
allowedRoles(roles) == IF roles.isArray THEN roles.items ELSE <<roles.value>>

\* allowedRoles.includes(userRole); an undefined role equals no role string
includes(allowed, userRole) ==
    userRole.has /\ \E k \in DOMAIN allowed : allowed[k] = userRole.value

\* requireRole whose 403 branch lacks its `return`
requireRoleFallingThrough(roles, r) ==
    IF r.user.isNull THEN Respond(r, 401)
    ELSE IF ~includes(allowedRoles(roles), r.user.role)
         THEN [responses |-> <<403>>, nexts |-> 1, req |-> r]
         ELSE CallNext(r)

requireRole(roles, r) ==
    IF r.user.isNull THEN Respond(r, 401)
    ELSE IF ~includes(allowedRoles(roles), r.user.role) THEN Respond(r, 403)
         ELSE CallNext(r)

\* a || b || c on values that are undefined or non-empty strings
firstDefined(a, b, c) == IF a.has THEN a ELSE IF b.has THEN b ELSE c

\* req.params.companyId || req.body.companyId || req.query.companyId
requestedCompanyId(r) ==
    firstDefined(r.params.companyId, r.body.companyId, r.query.companyId)

requireCompanyAccess(r) ==
    IF r.user.isNull THEN Respond(r, 401)
    ELSE IF r.user.userType = "it_park_admin" THEN CallNext(r)
    ELSE IF r.user.companyId # requestedCompanyId(r) THEN Respond(r, 403)
    ELSE CallNext(r)

\* middleware/validate: answers 400 when a validator of the route failed
validate(r) == IF r.valid THEN CallNext(r) ELSE Respond(r, 400)

\* An entry of a route's handler stack
Handler(fn, roles, name) == [fn |-> fn, roles |-> roles, name |-> name]

\* The application mounts authMiddleware in front of the business-trip router
mountedBefore == <<Handler("authMiddleware", RoleArray(<<>>), "authMiddleware")>>

\* router.post('/', ...) with the role check left out of the stack
createTripRouteUnguarded ==
    mountedBefore \o
    <<Handler("validate", RoleArray(<<>>), "validate"),
      Handler("controller", RoleArray(<<>>), "createTrip")>>

\* router.post('/', createTripValidation, validate, requireRole([...]), createTrip)
createTripRoute ==
    mountedBefore \o
    <<Handler("validate", RoleArray(<<>>), "validate"),
      Handler("requireRole", RoleArray(<<"employee", "manager", "admin">>), "requireRole"),
      Handler("controller", RoleArray(<<>>), "createTrip")>>

\* router.post('/:id/approve', [...], validate, requireRole([...]), approveTrip)
approveTripRoute ==
    mountedBefore \o
    <<Handler("validate", RoleArray(<<>>), "validate"),
      Handler("requireRole", RoleArray(<<"manager", "admin">>), "requireRole"),
      Handler("controller", RoleArray(<<>>), "approveTrip")>>

\* router.post('/:id/reject', [...], validate, requireRole([...]), rejectTrip)
rejectTripRoute ==
    mountedBefore \o
    <<Handler("validate", RoleArray(<<>>), "validate"),
      Handler("requireRole", RoleArray(<<"manager", "admin">>), "requireRole"),
      Handler("controller", RoleArray(<<>>), "rejectTrip")>>

Routes == {createTripRoute, approveTripRoute, rejectTripRoute}

\* Inputs of the HTTP layer
HttpRoles == {"employee", "manager", "admin", "viewer"}

CompanyIds == {Undefined, Defined("c1"), Defined("c2")}

HttpUsers ==
    {User(role, userType, companyId) :
        role \in {Undefined} \cup {Defined(r) : r \in HttpRoles},
        userType \in {"it_park_admin", "company_user"},
        companyId \in CompanyIds}

Headers ==
    {NoHeader}
    \cup {Header(prefix, Token("valid", u)) :
             prefix \in {"Bearer ", "Basic "}, u \in HttpUsers}
    \cup {Header(prefix, Token(k, Null)) :
             prefix \in {"Bearer ", "Basic "},
             k \in {"expired", "malformed", "not_before"}}

RoleArguments ==
    {RoleArray(<<"manager", "admin">>),
     RoleArray(<<"employee", "manager", "admin">>),
     RoleArray(<<>>),
     SingleRole("admin")}

\* The dispatch of one request through a handler stack
Dispatch(stack) == [isNull |-> FALSE, stack |-> stack, at |-> 1, open |-> TRUE,
                    invoked |-> <<>>]

\* The engine is not in use
EngineIdle ==
    /\ openaiApiKey = FALSE
    /\ financialData = Null
    /\ complianceRules = <<>>
    /\ now = 0
    /\ pc = "idle"
    /\ i = 1
    /\ analysis = EmptyAnalysis
    /\ anomalies = <<>>
    /\ result = "none"
    /\ anomalyRequests = 0
    /\ recRequests = 0
    /\ anomalyReply = NoReply
    /\ recReply = NoReply
    /\ ruleResults = <<>>
    /\ posted = <<>>

\* A request arrives: at one of the router's routes, or at one middleware
\* followed by a downstream handler
InitHttp ==
    /\ EngineIdle
    /\ \/ \E stack \in Routes, h \in Headers, valid \in BOOLEAN :
             /\ route = Dispatch(stack)
             /\ req = HttpRequest(h, valid, Undefined, Undefined, Undefined, Null)
       \/ \E h \in Headers :
             /\ route = Dispatch(<<Handler("authMiddleware", RoleArray(<<>>), "authMiddleware"),
                                   Handler("controller", RoleArray(<<>>), "downstream")>>)
             /\ req = HttpRequest(h, TRUE, Undefined, Undefined, Undefined, Null)
       \/ \E roles \in RoleArguments, u \in {Null} \cup HttpUsers :
             /\ route = Dispatch(<<Handler("requireRole", roles, "requireRole"),
                                   Handler("controller", RoleArray(<<>>), "downstream")>>)
             /\ req = HttpRequest(NoHeader, TRUE, Undefined, Undefined, Undefined, u)
       \/ \E u \in {Null} \cup HttpUsers, params, body, query \in CompanyIds :
             /\ route = Dispatch(<<Handler("requireCompanyAccess", RoleArray(<<>>), "requireCompanyAccess"),
                                   Handler("controller", RoleArray(<<>>), "downstream")>>)
             /\ req = HttpRequest(NoHeader, TRUE, params, body, query, u)
    /\ res = <<>>
    /\ nextCalls = <<>>
    /\ call = Null
    /\ ret = Null
    /\ sent = <<>>

\* The handler the router invokes next
current == route.stack[route.at]

Dispatching(fn) ==
    /\ ~route.isNull
    /\ route.open
    /\ current.fn = fn

\* The invoked handler has run with outcome out: the router goes on to the
\* following handler when next() was called
leave(out) ==
    /\ req' = out.req
    /\ res' = res \o [k \in 1..Len(out.responses) |->
                         [status |-> out.responses[k], by |-> current.name]]
    /\ nextCalls' = IF out.nexts > 0 THEN Append(nextCalls, current.name)
                    ELSE nextCalls
    /\ route' = [route EXCEPT !.invoked = Append(@, current.name),
                              !.at = IF out.nexts > 0 THEN @ + 1 ELSE @,
                              !.open = out.nexts > 0]
    /\ UNCHANGED <<call, ret, sent>>
    /\ UNCHANGED engineVars

runAuthMiddleware ==
    /\ Dispatching("authMiddleware")
    /\ leave(authMiddleware(req))

runValidate ==
    /\ Dispatching("validate")
    /\ leave(validate(req))

runRequireRole ==
    /\ Dispatching("requireRole")
    /\ leave(requireRole(current.roles, req))

runRequireCompanyAccess ==
    /\ Dispatching("requireCompanyAccess")
    /\ leave(requireCompanyAccess(req))

\* The last handler of the stack runs.  It answers, or it throws synchronously:
\* the router's Layer invokes every handler inside try/catch and passes what
\* it throws to next(err), so the error handler answers 500 and the next()
\* that invoked the handler returns normally to the middleware that called it.
runController ==
    /\ Dispatching("controller")
    /\ \E outcome \in {"responds", "throws"} :
          res' = Append(res, IF outcome = "responds"
                             THEN [status |-> 200, by |-> current.name]
                             ELSE [status |-> 500, by |-> "express"])
    /\ route' = [route EXCEPT !.invoked = Append(@, current.name), !.open = FALSE]
    /\ UNCHANGED <<req, nextCalls, call, ret, sent>>
    /\ UNCHANGED engineVars

NextHttp ==
    \/ runAuthMiddleware
    \/ runValidate
    \/ runRequireRole
    \/ runRequireCompanyAccess
    \/ runController

SpecHttp == InitHttp /\ [][NextHttp]_vars

----------------------------------------------------------------------------
(* E-signature service: EimzoService.verifySignature *)

\* A file on disk: fs.readFile rejects when it is not readable
File(readable, content) == [readable |-> readable, content |-> content]

\* calculateDocumentHash(documentContent): the digest of the content
calculateDocumentHash(content) == [sha256 |-> content]

\* signatureData.documentHash of an object that records none
NoDocumentHash == [has |-> FALSE, value |-> calculateDocumentHash("")]

\* The text of a signature file: not JSON, the JSON text null, or a JSON
\* object that may record a documentHash
SignatureData(documentHash) ==
    [json |-> TRUE, isNull |-> FALSE, documentHash |-> documentHash]

\* fs.readFile(path)
readFile(file) ==
    IF file.readable THEN Return(file.content) ELSE Raise("ENOENT: no such file")

\* JSON.parse(text)
jsonParse(text) ==
    IF text.json THEN Return(text) ELSE Raise("Unexpected token in JSON")

\* The object verifySignature returns, and whether it ran the cryptographic
\* verification on the way
Verification(isValid, error, ranCrypto) ==
    [isValid |-> isValid, error |-> error, ranCrypto |-> ranCrypto]

\* verifySignature without the comparison of the two hashes
verifySignatureWithoutHashCheck(document, signature, crypto) ==
    LET documentContent == readFile(document)
        signatureText == readFile(signature)
        signatureData == jsonParse(signatureText.value)
    IN IF documentContent.raised
       THEN Verification(FALSE, Defined(documentContent.value), FALSE)
       ELSE IF signatureText.raised
       THEN Verification(FALSE, Defined(signatureText.value), FALSE)
       ELSE IF signatureData.raised
       THEN Verification(FALSE, Defined(signatureData.value), FALSE)
       ELSE IF signatureData.value.isNull
       THEN Verification(FALSE, Defined("Cannot read properties of null"), FALSE)
       ELSE IF crypto = "throws"
       THEN Verification(FALSE, Defined("verification failed"), TRUE)
       ELSE Verification(crypto = "valid", Undefined, TRUE)

\* verifySignature(documentPath, signaturePath); crypto is what
\* verifyCryptographicSignature does when it is called
verifySignature(document, signature, crypto) ==
    LET documentContent == readFile(document)
        signatureText == readFile(signature)
        signatureData == jsonParse(signatureText.value)
    IN IF documentContent.raised
       THEN Verification(FALSE, Defined(documentContent.value), FALSE)
       ELSE IF signatureText.raised
       THEN Verification(FALSE, Defined(signatureText.value), FALSE)
       ELSE IF signatureData.raised
       THEN Verification(FALSE, Defined(signatureData.value), FALSE)
       ELSE IF signatureData.value.isNull
       THEN Verification(FALSE, Defined("Cannot read properties of null"), FALSE)
       ELSE IF Defined(calculateDocumentHash(documentContent.value))
                  # signatureData.value.documentHash
       THEN Verification(FALSE, Defined("Document has been modified after signing"),
                         FALSE)
       ELSE IF crypto = "throws"
       THEN Verification(FALSE, Defined("verification failed"), TRUE)
       ELSE Verification(crypto = "valid", Undefined, TRUE)

Contents == {"report v1", "report v2", "report v3"}

DocumentFiles == {File(FALSE, "")} \cup {File(TRUE, c) : c \in Contents}

SignatureFiles ==
    {File(FALSE, [json |-> FALSE, isNull |-> FALSE, documentHash |-> NoDocumentHash]),
     File(TRUE, [json |-> FALSE, isNull |-> FALSE, documentHash |-> NoDocumentHash]),
     File(TRUE, [json |-> TRUE, isNull |-> TRUE, documentHash |-> NoDocumentHash]),
     File(TRUE, SignatureData(NoDocumentHash)),
     File(TRUE, SignatureData(Defined(calculateDocumentHash("another document"))))}
    \cup {File(TRUE, SignatureData(Defined(calculateDocumentHash(c)))) : c \in Contents}

CryptoOutcomes == {"valid", "invalid", "throws"}

InitEimzo ==
    /\ EngineIdle
    /\ req = Null
    /\ res = <<>>
    /\ route = Null
    /\ nextCalls = <<>>
    /\ \E document \in DocumentFiles, signature \in SignatureFiles,
          crypto \in CryptoOutcomes :
          call = [fn |-> "verifySignature", document |-> document,
                  signature |-> signature, crypto |-> crypto]
    /\ ret = Null
    /\ sent = <<>>

applyVerifySignature ==
    /\ ret = Null
    /\ call.fn = "verifySignature"
    /\ ret' = verifySignature(call.document, call.signature, call.crypto)
    /\ UNCHANGED <<req, res, route, nextCalls, call, sent>>
    /\ UNCHANGED engineVars

NextEimzo == applyVerifySignature

SpecEimzo == InitEimzo /\ [][NextEimzo]_vars

----------------------------------------------------------------------------
(* Virtual assistant: VirtualAssistant.processQuery.  A query is described   *)
(* by what the code tests of it: whether it is a string, the first entry of  *)
(* commonQuestions its lower-cased text includes or resembles (similarity    *)
(* above 0.7), and the topic words the lower-cased text includes.            *)

CommonQuestionKeys ==
    {"when to submit quarterly report", "business trip documentation",
     "compliance deadlines", "e-signature requirements"}

TopicWords == {"quarterly", "report", "annual", "business trip", "travel", "tax", "vat"}

Query(isString, common, words) ==
    [isString |-> isString, common |-> common, words |-> words]

\* A query that is undefined, a number or an object
NonStringQuery == Query(FALSE, "", {})

NoAnswer == "null"

\* searchKnowledgeBase(query): the answer text, NoAnswer for null, or the
\* TypeError of query.toLowerCase() on a value that is not a string
searchKnowledgeBase(query) ==
    IF ~query.isString THEN Raise("query.toLowerCase is not a function")
    ELSE IF query.common # "" THEN Return(query.common)
    ELSE IF "quarterly" \in query.words /\ "report" \in query.words
         THEN Return("quarterlyReporting")
    ELSE IF "annual" \in query.words /\ "report" \in query.words
         THEN Return("annualReporting")
    ELSE IF "business trip" \in query.words \/ "travel" \in query.words
         THEN Return("businessTrips")
    ELSE IF "tax" \in query.words \/ "vat" \in query.words
         THEN Return("taxCompliance")
    ELSE Return(NoAnswer)

\* generateSuggestions(query)
generateSuggestions(query) == <<"suggestion">>

KnowledgeResponse(answer, query) ==
    [answer |-> answer, source |-> "knowledge_base", confidence |-> 90,
     suggestions |-> generateSuggestions(query)]

ErrorResponse ==
    [answer |-> "I'm sorry, I'm having trouble processing your request",
     source |-> "error", confidence |-> 0,
     suggestions |-> <<"Contact support", "Try rephrasing your question",
                       "Check the help documentation">>]

\* What getAIResponse does: it resolves to an answer with a confidence, it
\* resolves to undefined, or it rejects
AiAnswer(confidence) == [kind |-> "answer", answer |-> "ai text", confidence |-> confidence]

AiOutcomes ==
    {AiAnswer(80), AiAnswer(0),
     [kind |-> "undefined", answer |-> "", confidence |-> 0],
     [kind |-> "rejects", answer |-> "", confidence |-> 0]}

\* processQuery has resolved or rejected with outcome
Settled(outcome) == [settled |-> TRUE, outcome |-> outcome]

\* processQuery waits at `await this.getAIResponse(query, context)`
AwaitingAI == [settled |-> FALSE, outcome |-> Return(ErrorResponse)]

\* processQuery up to its await, without the try/catch
processQueryUntilAIUncaught(query) ==
    LET knowledgeResponse == searchKnowledgeBase(query)
    IN IF knowledgeResponse.raised THEN Settled(Raise(knowledgeResponse.value))
       ELSE IF knowledgeResponse.value # NoAnswer
            THEN Settled(Return(KnowledgeResponse(knowledgeResponse.value, query)))
       ELSE AwaitingAI

\* processQuery up to its await
processQueryUntilAI(query) ==
    LET knowledgeResponse == searchKnowledgeBase(query)
    IN IF knowledgeResponse.raised THEN Settled(Return(ErrorResponse))
       ELSE IF knowledgeResponse.value # NoAnswer
            THEN Settled(Return(KnowledgeResponse(knowledgeResponse.value, query)))
       ELSE AwaitingAI

\* processQuery once getAIResponse has settled with ai
processQueryAfterAI(query, ai) ==
    IF ai.kind = "answer"
    THEN Return([answer |-> ai.answer, source |-> "ai", confidence |-> ai.confidence,
                 suggestions |-> generateSuggestions(query)])
    ELSE Return(ErrorResponse)

\* The request getAIResponse sends to the AI endpoint
AiRequest(query) == [to |-> "ai", by |-> "getAIResponse", query |-> query]

Queries ==
    {NonStringQuery}
    \cup {Query(TRUE, c, w) : c \in {""} \cup CommonQuestionKeys, w \in SUBSET TopicWords}

InitAssistant ==
    /\ EngineIdle
    /\ req = Null
    /\ res = <<>>
    /\ route = Null
    /\ nextCalls = <<>>
    /\ \E query \in Queries :
          call = [fn |-> "processQuery", query |-> query, step |-> "called"]
    /\ ret = Null
    /\ sent = <<>>

\* processQuery(query, context) runs up to its first await
callProcessQuery ==
    /\ call.fn = "processQuery"
    /\ call.step = "called"
    /\ LET run == processQueryUntilAI(call.query)
       IN IF run.settled
          THEN /\ ret' = run.outcome
               /\ call' = [call EXCEPT !.step = "settled"]
               /\ UNCHANGED sent
          ELSE /\ sent' = Append(sent, AiRequest(call.query))
               /\ call' = [call EXCEPT !.step = "awaitAI"]
               /\ UNCHANGED ret
    /\ UNCHANGED <<req, res, route, nextCalls>>
    /\ UNCHANGED engineVars

\* getAIResponse settles
aiResponse ==
    /\ call.fn = "processQuery"
    /\ call.step = "awaitAI"
    /\ \E ai \in AiOutcomes :
          ret' = processQueryAfterAI(call.query, ai)
    /\ call' = [call EXCEPT !.step = "settled"]
    /\ UNCHANGED <<req, res, route, nextCalls, sent>>
    /\ UNCHANGED engineVars

NextAssistant ==
    \/ callProcessQuery
    \/ aiResponse

SpecAssistant == InitAssistant /\ [][NextAssistant]_vars

----------------------------------------------------------------------------
(* Telegram bot: the handlers TelegramBotService.setupEventHandlers          *)
(* registers.  A message text is a sequence of atoms: the commands the bot   *)
(* advertises and two plain words.  For every message the library emits      *)
(* 'message' and then, when the message has a text, calls the callback of    *)
(* every onText regular expression the text matches, in registration order.  *)

AdvertisedCommands ==
    {"/start", "/help", "/deadlines", "/status", "/trip", "/report", "/contact"}

\* An incoming message; a photo or a sticker has no text
Message(hasText, text) == [hasText |-> hasText, text |-> text]

\* The messages that arrive: one without text, and every text of up to
\* MaxAtoms atoms, an atom being an advertised command or a plain word
Messages ==
    {Message(FALSE, <<>>)}
    \cup {Message(TRUE, t) :
             t \in SeqsUpTo(AdvertisedCommands \cup {"tax", "hello"}, MaxAtoms) \ {<<>>}}

\* regexp.exec(message.text) for /\/start/, /\/help/ and /\/deadlines/: the
\* expressions are not anchored, they match anywhere in the text
regexpMatches(command, text) == \E k \in DOMAIN text : text[k] = command

\* messageText.startsWith('/')
startsWithSlash(text) == text[1] \in AdvertisedCommands

\* normalizedQuery.includes(word) on the text of the message
textIncludes(text, word) ==
    \E k \in DOMAIN text : text[k] = word \/ (text[k] = "/report" /\ word = "report")

\* The query the 'message' handler passes to processQuery: msg.text
queryOf(message) ==
    IF ~message.hasText THEN NonStringQuery
    ELSE Query(TRUE, "", {w \in TopicWords : textIncludes(message.text, w)})

\* this.sendMessage(chatId, text): one message to the chat
TelegramMessage(by, text) == [to |-> "telegram", by |-> by, text |-> text]

InitBot ==
    /\ EngineIdle
    /\ req = Null
    /\ res = <<>>
    /\ route = Null
    /\ nextCalls = <<>>
    /\ \E message \in Messages :
          call = [fn |-> "processUpdate", message |-> message, step |-> "message",
                  assistant |-> "idle"]
    /\ ret = Null
    /\ sent = <<>>

\* The text a processQuery outcome makes the 'message' handler send
replyOf(outcome) ==
    IF outcome.raised THEN "Sorry, I encountered an error processing your request"
    ELSE outcome.value.answer

\* bot.on('message'): the assistant handler
onMessage ==
    /\ call.fn = "processUpdate"
    /\ call.step = "message"
    /\ IF call.message.hasText /\ startsWithSlash(call.message.text)
       THEN /\ call' = [call EXCEPT !.step = "/start"]
            /\ UNCHANGED sent
       ELSE LET run == processQueryUntilAI(queryOf(call.message))
            IN IF run.settled
               THEN /\ sent' = Append(sent,
                                  TelegramMessage("message", replyOf(run.outcome)))
                    /\ call' = [call EXCEPT !.step = "/start", !.assistant = "done"]
               ELSE /\ sent' = Append(sent, AiRequest(queryOf(call.message)))
                    /\ call' = [call EXCEPT !.step = "/start",
                                            !.assistant = "awaitAI"]
    /\ UNCHANGED <<req, res, route, nextCalls, ret>>
    /\ UNCHANGED engineVars

\* The library tries the regular expression of the onText handler of command
\* and calls the handler, which sends its message, when the text matches
onText(command, following) ==
    /\ call.fn = "processUpdate"
    /\ call.step = command
    /\ sent' = IF call.message.hasText /\ regexpMatches(command, call.message.text)
               THEN Append(sent, TelegramMessage(command, command))
               ELSE sent
    /\ call' = [call EXCEPT !.step = following]
    /\ UNCHANGED <<req, res, route, nextCalls, ret>>
    /\ UNCHANGED engineVars

\* getAIResponse settles for the assistant handler, which sends its reply
assistantReply ==
    /\ call.fn = "processUpdate"
    /\ call.assistant = "awaitAI"
    /\ \E ai \in AiOutcomes :
          sent' = Append(sent, TelegramMessage("message",
                     replyOf(processQueryAfterAI(queryOf(call.message), ai))))
    /\ call' = [call EXCEPT !.assistant = "done"]
    /\ UNCHANGED <<req, res, route, nextCalls, ret>>
    /\ UNCHANGED engineVars

NextBot ==
    \/ onMessage
    \/ onText("/start", "/help")
    \/ onText("/help", "/deadlines")
    \/ onText("/deadlines", "dispatched")
    \/ assistantReply

SpecBot == InitBot /\ [][NextBot]_vars

----------------------------------------------------------------------------
(* Claims *)

InRange(x, lo, hi) == lo <= x /\ x <= hi

\* C1: calculateRiskScore returns an integer r with 0 <= r <= 100 for every list
\* of violations and of anomalies, confidences outside [0,1] included.
C1_RiskScoreInRange ==
    (pc = "scored" /\ result = "returned")
        => InRange(analysis.riskScore, 0, MaxScore)

\* C2: a failing evaluation of one rule contributes no violation and never aborts
\* the batch: no checkRule call raises, and the call never fails inside the loop.
C2_RuleFailureNeverAbortsBatch ==
    /\ \A k \in DOMAIN ruleResults : ~ruleResults[k].raised
    /\ result = "failed" => i > Len(complianceRules)

\* C3: on a transport error, on content that is not JSON and on JSON that is not
\* an array, detectAnomalies and generateRecommendations yield the empty
\* sequence and the call still returns; after a failed anomaly request the risk
\* score is the score of the rule violations alone.
C3_AdvisorFailureDegrades ==
    /\ (pc \in {"awaitRecommendations", "done"} /\ anomalyReply.kind \in FailureKinds)
          => /\ anomalies = <<>>
             /\ analysis.insights = <<>>
             /\ result # "failed"
             /\ analysis.riskScore = calculateRiskScore(analysis.violations, <<>>).value
    /\ (pc = "done" /\ anomalyReply.kind \in FailureKinds) => result = "returned"
    /\ (pc = "done" /\ recReply.kind \in FailureKinds)
          => /\ analysis.recommendations = <<>>
             /\ result = "returned"

C3_Witness ==
    /\ pc = "done"
    /\ result = "returned"
    /\ anomalyReply.kind = "not_json"
    /\ recReply.kind = "transport_error"
    /\ analysis.violations # <<>>
    /\ analysis.riskScore > 0

\* C4: without a credential the call sends no request and returns a result with
\* no insights, no recommendations and the score of the rule violations alone,
\* whatever the snapshot and the rule list.
C4_UnconfiguredReturnsRuleScore ==
    ~openaiApiKey
        => /\ anomalyRequests + recRequests = 0
           /\ pc = "done"
                => /\ result = "returned"
                   /\ analysis.insights = <<>>
                   /\ analysis.recommendations = <<>>
                   /\ analysis.riskScore =
                        calculateRiskScore(analysis.violations, <<>>).value

\* C5: within one call the recommendation request is sent iff the violations
\* list is non-empty and the credential is configured; otherwise there are no
\* recommendations and no request.
C5_RecommendationRequestIff ==
    pc = "done"
        => /\ recRequests = 1 <=> (openaiApiKey /\ analysis.violations # <<>>)
           /\ recRequests = 0 => analysis.recommendations = <<>>

\* C6: every call eventually completes, also when the advisor never answers.
C6_CallCompletes == (pc = "rules") ~> (pc = "done")

\* The rule and the snapshot of the one checkRule call of SpecRule
CheckedRule == complianceRules[1]

Checked(type) ==
    /\ pc = "checked"
    /\ ~CheckedRule.isNull
    /\ CheckedRule.hasDefinition
    /\ CheckedRule.type = type
    /\ ~financialData.isNull

\* C7: a report_submission rule yields missing_submission (confidence 1.0, the
\* rule's severity) without a lastSubmissionDate; otherwise overdue_submission
\* (confidence 1.0) stating days_since - deadline_days exactly when days_since,
\* the whole days elapsed, exceeds deadline_days; otherwise no violation.
C7_ReportSubmission ==
    Checked("report_submission") =>
        LET v == ruleResults[1].value
            elapsed == now - financialData.lastSubmissionDate
            deadline == CheckedRule.deadline_days
        IN /\ ~ruleResults[1].raised
           /\ IF ~financialData.hasLastSubmissionDate
              THEN /\ v.violationType = "missing_submission"
                   /\ v.aiConfidence = 100
                   /\ v.severity = CheckedRule.severity
              ELSE \E days \in -Now..Now :
                     /\ days * TicksPerDay <= elapsed
                     /\ elapsed < (days + 1) * TicksPerDay
                     /\ IF days > deadline
                        THEN /\ v.violationType = "overdue_submission"
                             /\ v.aiConfidence = 100
                             /\ v.description.days = days - deadline
                        ELSE v = NoViolation

C7_Witness ==
    /\ Checked("report_submission")
    /\ financialData.hasLastSubmissionDate
    /\ ruleResults[1].value.violationType = "overdue_submission"
    /\ ruleResults[1].value.description.days = 2

\* The most recent min(3, n) entries of the checked snapshot's revenue series
LastEntries ==
    LET m == financialData.monthlyRevenue
        n == Len(m)
        k == IF n < 3 THEN n ELSE 3
    IN [j \in 1..k |-> m[n - k + j].amount]

\* C8: a revenue_tracking rule yields missing_revenue_data (confidence 1.0, the
\* rule's severity) when monthlyRevenue is absent or empty; otherwise low_revenue
\* with severity medium and confidence 0.85 exactly when the mean of the most
\* recent min(3, n) entries is strictly below the threshold the check compares
\* with; otherwise no violation.
C8_RevenueTracking ==
    Checked("revenue_tracking") =>
        LET v == ruleResults[1].value
        IN /\ ~ruleResults[1].raised
           /\ IF ~financialData.hasMonthlyRevenue \/ financialData.monthlyRevenue = <<>>
              THEN /\ v.violationType = "missing_revenue_data"
                   /\ v.aiConfidence = 100
                   /\ v.severity = CheckedRule.severity
              ELSE IF SumSeq(LastEntries) < ruleThreshold(CheckedRule) * Len(LastEntries)
                   THEN /\ v.violationType = "low_revenue"
                        /\ v.severity = "medium"
                        /\ v.aiConfidence = 85
                   ELSE v = NoViolation

C8_Witness ==
    /\ Checked("revenue_tracking")
    /\ Len(financialData.monthlyRevenue) = 4
    /\ financialData.monthlyRevenue[1].amount = 12000
    /\ CheckedRule.severity = "critical"
    /\ ruleResults[1].value.violationType = "low_revenue"

\* C9: the default 10000 is used exactly when the rule definition specifies no
\* threshold; a specified threshold T, T = 0 included, is the one the mean is
\* compared with.
C9_SpecifiedThresholdIsUsed ==
    (/\ Checked("revenue_tracking")
     /\ financialData.hasMonthlyRevenue
     /\ financialData.monthlyRevenue # <<>>) =>
        LET T == IF CheckedRule.hasThreshold
                 THEN CheckedRule.threshold
                 ELSE DefaultThreshold
        IN ruleResults[1].value.violationType = "low_revenue"
              <=> SumSeq(LastEntries) < T * Len(LastEntries)

CountOf(severity) ==
    Cardinality({j \in DOMAIN analysis.violations :
                    analysis.violations[j].severity = severity})

WeightedViolations ==
    25 * CountOf("critical") + 15 * CountOf("high")
    + 10 * CountOf("medium") + 5 * CountOf("low")

\* C10: with no anomalies calculateRiskScore returns min(100, 25c + 15h + 10m + 5l)
\* for c, h, m, l violations of severity critical, high, medium, low; any other
\* severity adds 0.
C10_ViolationScore ==
    (pc = "scored" /\ anomalies = <<>>)
        => /\ result = "returned"
           /\ analysis.riskScore =
                IF WeightedViolations > 100 THEN 100 ELSE WeightedViolations

C10_Witness ==
    /\ pc = "scored"
    /\ anomalies = <<>>
    /\ CountOf("info") = 1
    /\ CountOf("high") = 1
    /\ CountOf("medium") = 2
    /\ analysis.riskScore = 35

\* The confidence an anomaly is weighted by when 0.5 stands in only for a
\* missing confidence
StatedConfidence(anomaly) ==
    IF anomaly.hasConfidence THEN anomaly.confidence ELSE 50

AnomalyWeight(severity) ==
    CASE severity = "critical" -> 20
      [] severity = "high" -> 12
      [] severity = "medium" -> 8
      [] severity = "low" -> 3
      [] OTHER -> 0

\* C11: each anomaly adds weight(severity) * confidence with weights 20, 12, 8, 3,
\* the default 0.5 standing in exactly when the anomaly carries no confidence (a
\* confidence of 0 is used as it is); the sum over violations and anomalies is
\* rounded to the nearest integer once and then capped at 100.
C11_AnomalyScore ==
    (pc = "scored" /\ result = "returned") =>
        LET sum == 100 * WeightedViolations
                   + SumSeq([j \in DOMAIN anomalies |->
                                AnomalyWeight(anomalies[j].severity)
                                * StatedConfidence(anomalies[j])])
            rounded == (sum + 50) \div 100
        IN analysis.riskScore = IF rounded > 100 THEN 100 ELSE rounded

SeverityRank(severity) ==
    CASE severity = "critical" -> 4
      [] severity = "high" -> 3
      [] severity = "medium" -> 2
      [] severity = "low" -> 1
      [] OTHER -> 0

\* s is a higher severity than that of element e (low < medium < high < critical)
Raises(e, s) == SeverityRank(e.severity) > 0 /\ SeverityRank(s) > SeverityRank(e.severity)

ScoreOf(violations, anomalyList) == calculateRiskScore(violations, anomalyList).value

\* C12: the score never decreases when one more violation or one more anomaly is
\* appended, nor when an element's severity is replaced by a higher one.
C12_ScoreMonotone ==
    (pc = "scored" /\ result = "returned") =>
        LET V == analysis.violations
            A == anomalies
        IN /\ \A s \in Severities :
                 ScoreOf(Append(V, [severity |-> s]), A) >= analysis.riskScore
           /\ \A a \in ScoreAnomalies \ {Null} :
                 ScoreOf(V, Append(A, a)) >= analysis.riskScore
           /\ \A j \in DOMAIN V : \A s \in Severities :
                 Raises(V[j], s) =>
                    ScoreOf([V EXCEPT ![j].severity = s], A) >= analysis.riskScore
           /\ \A j \in DOMAIN A : \A s \in Severities :
                 Raises(A[j], s) =>
                    ScoreOf(V, [A EXCEPT ![j].severity = s]) >= analysis.riskScore

\* The call was made with no rules and the snapshot {}
EmptyCall ==
    /\ pc = "done"
    /\ complianceRules = <<>>
    /\ financialData = Snapshot(FALSE, 0, FALSE, <<>>)

\* C13 as stated: given zero rules and an empty snapshot, the result returned
\* is exactly violations = [], riskScore = 0, recommendations = [], insights = [].
C13_EmptyCallReturnsEmpty ==
    (EmptyCall /\ result = "returned") => analysis = EmptyAnalysis

\* C13 as amended: given zero rules and an empty snapshot, the call returns
\* exactly the empty result when the advisor is not configured or its anomaly
\* call yields no anomalies (it fails, or answers with an empty array).
C13_EmptyCallWithoutAnomalies ==
    (EmptyCall /\ (~openaiApiKey \/ parseArray(anomalyReply) = <<>>))
        => /\ result = "returned"
           /\ analysis = EmptyAnalysis
           /\ recRequests = 0

C13_Witness ==
    /\ EmptyCall
    /\ openaiApiKey
    /\ anomalyRequests = 1
    /\ anomalyReply = Reply("json_array", <<>>)
    /\ result = "returned"

\* C14: a call ends in one of two ways, a complete result or the one generic
\* error, and the error is never the outcome of a per-rule evaluation error nor
\* of an advisor transport or parse error.
C14_FailureOnlyAtOrchestratorLevel ==
    /\ pc = "done" => result \in {"returned", "failed"}
    /\ result = "failed"
          => /\ \A k \in DOMAIN ruleResults : ~ruleResults[k].raised
             /\ anomalyReply.kind \notin FailureKinds
             /\ recReply.kind \notin FailureKinds

\* C15: the violations hold at most one violation per input rule, in the order
\* of the rules (their ruleIds are those of a subsequence of the rules), and the
\* insights of a returned result are exactly the anomalies the advisor returned,
\* in the order returned.
C15_DetectionOrderPreserved ==
    /\ \A j \in DOMAIN analysis.violations :
          /\ analysis.violations[j].ruleId \in DOMAIN complianceRules
          /\ complianceRules[analysis.violations[j].ruleId].id
                = analysis.violations[j].ruleId
    /\ \A j, k \in DOMAIN analysis.violations :
          j < k => analysis.violations[j].ruleId < analysis.violations[k].ruleId
    /\ result = "returned"
          => analysis.insights =
                IF anomalyReply.kind = "json_array" THEN anomalyReply.content ELSE <<>>

C15_Witness ==
    /\ result = "returned"
    /\ Len(analysis.violations) = 2
    /\ analysis.violations[1].violationType = "missing_submission"
    /\ analysis.violations[2].violationType = "missing_revenue_data"
    /\ Len(analysis.insights) = 2
    /\ analysis.insights[1].severity = "critical"
    /\ analysis.insights[2].severity = "low"

\* C16: within one call the anomaly request is sent at most once and the
\* recommendation request at most once, also when a request fails.
C16_NoRetries ==
    /\ anomalyRequests <= 1
    /\ recRequests <= 1
    /\ anomalyReply.kind \in FailureKinds => anomalyRequests = 1
    /\ recReply.kind \in FailureKinds => recRequests = 1

C16_Witness ==
    /\ pc = "done"
    /\ anomalyReply.kind = "transport_error"
    /\ recReply.kind = "transport_error"
    /\ anomalyRequests = 1
    /\ recRequests = 1

\* The anomalies the advisor's answer to the anomaly request holds
ReturnedAnomalies ==
    IF anomalyReply.kind = "json_array" THEN anomalyReply.content ELSE <<>>

\* C17 as stated: neither request depends on the other call's result; the
\* recommendation request posted is the one that would have been posted
\* whatever the anomaly call had answered.
C17_RequestsIndependent ==
    \A k \in DOMAIN posted :
        posted[k].to = "recommendations" =>
            \A reply \in AnomalyReplies :
                LET other == calculateRiskScore(analysis.violations,
                                 detectAnomalies(openaiApiKey, reply).value)
                IN ~other.raised =>
                      posted[k].prompt =
                         [violations |-> analysis.violations,
                          riskScore |-> other.value]

\* C17 as amended: the anomaly request is the first one posted and depends on
\* the snapshot alone; the recommendation request is posted after the anomaly
\* call has settled and carries the violations and the risk score computed from
\* the anomalies that call returned; the insights and the risk score of the
\* result do not depend on the recommendation call.
C17_RecommendationRequestCarriesScore ==
    /\ \A k \in DOMAIN posted :
          posted[k].to = "anomalies"
             => k = 1 /\ posted[k].prompt = [data |-> financialData]
    /\ \A k \in DOMAIN posted :
          posted[k].to = "recommendations"
             => /\ k = 2
                /\ anomalyReply # NoReply
                /\ posted[k].prompt =
                      [violations |-> analysis.violations,
                       riskScore |-> ScoreOf(analysis.violations, ReturnedAnomalies)]
    /\ result = "returned"
          => /\ analysis.insights = ReturnedAnomalies
             /\ analysis.riskScore = ScoreOf(analysis.violations, ReturnedAnomalies)

C17_Witness ==
    /\ result = "returned"
    /\ Len(posted) = 2
    /\ posted[2].to = "recommendations"
    /\ posted[2].prompt.riskScore > ScoreOf(analysis.violations, <<>>)
    /\ recReply.kind = "json_array"
    /\ analysis.recommendations # <<>>

UnevaluatedTypes == {"tax_compliance", "trip_documentation", "unknown_type"}

\* C19: for a rule of type tax_compliance, trip_documentation or an
\* unrecognised type, checkRule returns no violation for every snapshot (a null
\* snapshot included) and does not raise.
C19_UnevaluatedTypesYieldNoViolation ==
    (/\ pc = "checked"
     /\ ~CheckedRule.isNull
     /\ CheckedRule.hasDefinition
     /\ CheckedRule.type \in UnevaluatedTypes)
        => ruleResults = <<Return(NoViolation)>>

C19_Witness ==
    /\ pc = "checked"
    /\ ~CheckedRule.isNull
    /\ CheckedRule.hasDefinition
    /\ CheckedRule.type = "tax_compliance"
    /\ ~financialData.isNull
    /\ ~financialData.hasLastSubmissionDate
    /\ financialData.hasMonthlyRevenue
    /\ Len(financialData.monthlyRevenue) = RecentMonths
    /\ ruleResults = <<Return(NoViolation)>>

\* C20: analyzeCompliance and the rule checks leave their inputs unchanged:
\* from the moment the call is made, no step changes the financial snapshot
\* (the monthlyRevenue series included) or a rule record.
C20_InputsUnchanged ==
    [][pc # "idle" => /\ financialData' = financialData
                      /\ complianceRules' = complianceRules]_vars

C20_Witness ==
    /\ result = "returned"
    /\ ~financialData.isNull
    /\ financialData.hasMonthlyRevenue
    /\ financialData.monthlyRevenue # <<>>
    /\ \E k \in DOMAIN complianceRules :
          /\ ~complianceRules[k].isNull
          /\ complianceRules[k].hasDefinition
          /\ complianceRules[k].type = "revenue_tracking"
          /\ k <= Len(ruleResults)
    /\ \E k \in DOMAIN analysis.violations :
          analysis.violations[k].violationType = "low_revenue"

\* What one analyzeCompliance call yields when it runs alone, as a function of
\* its snapshot, its rules and the advisor's answers to its two requests
RuleOutcomes(data, rules, t) ==
    [k \in 1..Len(rules) |-> checkRule(data, rules[k], t)]

ViolationsOf(data, rules, t) ==
    LET found == SelectSeq(RuleOutcomes(data, rules, t),
                           LAMBDA r : r.value # NoViolation)
    IN [k \in 1..Len(found) |-> found[k].value]

OutcomeAlone(key, data, rules, t, aReply, rReply) ==
    LET failed == [result |-> "failed", analysis |-> EmptyAnalysis]
        outcomes == RuleOutcomes(data, rules, t)
        found == detectAnomalies(key, aReply).value
        violations == ViolationsOf(data, rules, t)
        score == calculateRiskScore(violations, found)
        scored == [EmptyAnalysis EXCEPT !.violations = violations,
                                        !.insights = found,
                                        !.riskScore = score.value]
        recs == generateRecommendations(key, scored, rReply)
    IN IF \E k \in DOMAIN outcomes : outcomes[k].raised THEN failed
       ELSE IF score.raised THEN failed
       ELSE IF ~sendsRecommendationRequest(key, scored)
            THEN [result |-> "returned", analysis |-> scored]
       ELSE IF recs.raised THEN failed
       ELSE [result |-> "returned",
             analysis |-> [scored EXCEPT !.recommendations = recs.value]]

\* The state of call c
CallState(c) ==
    <<financialData[c], complianceRules[c], pc[c], i[c], analysis[c],
      anomalies[c], result[c], anomalyRequests[c], recRequests[c],
      anomalyReply[c], recReply[c], ruleResults[c], posted[c]>>

ResultIsOwn(c) ==
    pc[c] = "done" =>
        LET alone == OutcomeAlone(openaiApiKey, financialData[c], complianceRules[c],
                                  now, anomalyReply[c], recReply[c])
        IN /\ result[c] = alone.result
           /\ result[c] = "returned" => analysis[c] = alone.analysis

\* C18: concurrent calls on the shared engine do not interfere: under every
\* interleaving at the await points, the result of each call is the one it
\* yields alone on its own snapshot, rules and advisor answers; every step
\* belongs to one call and leaves the state of every other call unchanged, and
\* no step writes the instance's field.
C18_CallsDoNotInterfere ==
    /\ [](\A c \in Calls : ResultIsOwn(c))
    /\ [][/\ openaiApiKey' = openaiApiKey
          /\ \E c \in Calls :
                \A d \in Calls \ {c} : CallState(d)' = CallState(d)]_vars

C18_Witness ==
    /\ openaiApiKey
    /\ result["a"] = "returned"
    /\ analysis["a"].violations # <<>>
    /\ analysis["a"].recommendations # <<>>
    /\ pc["b"] = "awaitRecommendations"
    /\ financialData["b"] # financialData["a"]
    /\ complianceRules["b"] # complianceRules["a"]
    /\ analysis["b"].violations # analysis["a"].violations
    /\ analysis["b"].riskScore # analysis["a"].riskScore

\* The handler called name has been invoked for the request
Ran(name) == \E k \in DOMAIN route.invoked : route.invoked[k] = name

\* The responses the handler called name has sent, and its calls of next()
ResponsesBy(name) == {k \in DOMAIN res : res[k].by = name}

NextsBy(name) == {k \in DOMAIN nextCalls : nextCalls[k] = name}

\* The request carries a Bearer token that passes jwt.verify
Authenticated ==
    /\ req.authorization.present
    /\ req.authorization.prefix = "Bearer "
    /\ req.authorization.token.kind = "valid"

\* The request carries no token, or one that jwt.verify rejects as expired or
\* invalid (the cases authMiddleware answers with 401)
Unauthenticated ==
    \/ ~req.authorization.present
    \/ req.authorization.prefix # "Bearer "
    \/ req.authorization.token.kind \in {"expired", "malformed"}

\* The controller a route ends with and the roles its documentation admits
RouteController == route.stack[Len(route.stack)].name

AdmittedRoles(controller) ==
    IF controller = "createTrip" THEN {"employee", "manager", "admin"}
    ELSE {"manager", "admin"}

AtGuardedRoute == RouteController \in {"createTrip", "approveTrip", "rejectTrip"}

RoleAdmitted ==
    /\ Authenticated
    /\ req.authorization.token.payload.role.has
    /\ req.authorization.token.payload.role.value \in AdmittedRoles(RouteController)

C22_AuthMiddleware ==
    Ran("authMiddleware") =>
        IF Authenticated
        THEN /\ Cardinality(NextsBy("authMiddleware")) = 1
             /\ ResponsesBy("authMiddleware") = {}
             /\ req.user = req.authorization.token.payload
        ELSE /\ NextsBy("authMiddleware") = {}
             /\ req.user = Null
             /\ Cardinality(ResponsesBy("authMiddleware")) = 1
             /\ \A k \in ResponsesBy("authMiddleware") :
                   res[k].status =
                      IF Unauthenticated THEN 401 ELSE 500

C22_Witness ==
    /\ Ran("authMiddleware")
    /\ req.authorization.present
    /\ req.authorization.prefix = "Basic "
    /\ req.authorization.token.kind = "valid"
    /\ res = <<[status |-> 401, by |-> "authMiddleware"]>>
    /\ req.user = Null

GivenRoles ==
    LET h == CHOOSE h \in {route.stack[k] : k \in DOMAIN route.stack} :
                  h.fn = "requireRole"
    IN IF h.roles.isArray THEN {h.roles.items[k] : k \in DOMAIN h.roles.items}
       ELSE {h.roles.value}

\* C24: requireRole(roles) calls next() if and only if req.user is set and its
\* role is one of the allowed roles, a single role string being a one-element
\* set; it responds 401 when req.user is missing and 403 when the role (an
\* undefined role included) is not allowed.
C24_RequireRole ==
    Ran("requireRole") =>
        LET allowed == /\ ~req.user.isNull
                       /\ req.user.role.has
                       /\ req.user.role.value \in GivenRoles
        IN /\ Cardinality(NextsBy("requireRole")) = (IF allowed THEN 1 ELSE 0)
           /\ allowed => ResponsesBy("requireRole") = {}
           /\ ~allowed =>
                 /\ Cardinality(ResponsesBy("requireRole")) = 1
                 /\ \A k \in ResponsesBy("requireRole") :
                       res[k].status = IF req.user.isNull THEN 401 ELSE 403

C24_Witness ==
    /\ Ran("requireRole")
    /\ GivenRoles = {"admin"}
    /\ ~req.user.isNull
    /\ req.user.role = Defined("admin")
    /\ nextCalls = <<"requireRole">>
    /\ res = <<>>

\* C25: requireCompanyAccess lets a user who is not an it_park_admin through to
\* next() only when the request names a company id (from params, else body,
\* else query) equal to the user's own companyId, never for another company's
\* id nor when the user has no companyId; an it_park_admin always reaches
\* next(); an unauthenticated request gets 401.
C25_CompanyAccess ==
    Ran("requireCompanyAccess") =>
        LET named == IF req.params.companyId.has THEN req.params.companyId
                     ELSE IF req.body.companyId.has THEN req.body.companyId
                     ELSE req.query.companyId
            passed == NextsBy("requireCompanyAccess") # {}
        IN IF req.user.isNull
           THEN /\ ~passed
                /\ \E k \in ResponsesBy("requireCompanyAccess") : res[k].status = 401
           ELSE IF req.user.userType = "it_park_admin"
           THEN passed
           ELSE passed => /\ named.has
                          /\ req.user.companyId.has
                          /\ named.value = req.user.companyId.value

\* C26: analyzeCompliance returns a result for every JSON array the advisor
\* may return as anomalies, arrays with null elements included, and a null
\* element adds 0 to the risk score.
C26_AnyAnomalyArrayTolerated ==
    (pc = "done" /\ anomalyReply.kind = "json_array") =>
        /\ result = "returned"
        /\ analysis.riskScore =
              ScoreOf(analysis.violations,
                      SelectSeq(anomalyReply.content, LAMBDA e : e # Null))

\* Both files of the call can be read and the signature file parses to an object
FilesParsed ==
    /\ call.document.readable
    /\ call.signature.readable
    /\ call.signature.content.json
    /\ ~call.signature.content.isNull

HashesEqual ==
    /\ call.signature.content.documentHash.has
    /\ call.signature.content.documentHash.value = [sha256 |-> call.document.content]

\* C27: verifySignature returns isValid = true only if the hash of the
\* document's current content equals the documentHash of the signature file;
\* when the hashes differ it returns isValid = false with the error 'Document
\* has been modified after signing' without running the cryptographic
\* verification; when reading or parsing a file fails it returns isValid =
\* false with the error message.
C27_VerifySignature ==
    (call # Null /\ call.fn = "verifySignature" /\ ret # Null) =>
        /\ ret.isValid => FilesParsed /\ HashesEqual
        /\ (FilesParsed /\ ~HashesEqual)
              => ret = [isValid |-> FALSE,
                        error |-> Defined("Document has been modified after signing"),
                        ranCrypto |-> FALSE]
        /\ ~FilesParsed
              => /\ ~ret.isValid
                 /\ ret.error.has
                 /\ ~ret.ranCrypto

C27_Witness ==
    /\ call # Null
    /\ call.fn = "verifySignature"
    /\ ret # Null
    /\ FilesParsed
    /\ call.document.content = "report v2"
    /\ call.signature.content.documentHash = Defined([sha256 |-> "report v1"])
    /\ call.crypto = "valid"
    /\ ~ret.isValid

\* The knowledge base has an answer for the query of the call
KnowledgeBaseMatches ==
    /\ call.query.isString
    /\ \/ call.query.common # ""
       \/ {"quarterly", "report"} \subseteq call.query.words
       \/ {"annual", "report"} \subseteq call.query.words
       \/ call.query.words \cap {"business trip", "travel", "tax", "vat"} # {}

\* C28: processQuery never rejects: for every query (a non-string or undefined
\* one included) and every failure of the AI call it resolves to a response
\* whose source is knowledge_base, ai or error; source error carries confidence
\* 0; the AI endpoint is consulted only when searchKnowledgeBase found no match,
\* and a match returns source knowledge_base with confidence 0.9.
C28_ProcessQueryNeverRejects ==
    (call # Null /\ call.fn = "processQuery") =>
        /\ sent # <<>> => call.query.isString /\ ~KnowledgeBaseMatches
        /\ Len(sent) <= 1
        /\ ret # Null =>
              /\ ~ret.raised
              /\ ret.value.source \in {"knowledge_base", "ai", "error"}
              /\ ret.value.source = "error" => ret.value.confidence = 0
              /\ KnowledgeBaseMatches
                    => /\ ret.value.source = "knowledge_base"
                       /\ ret.value.confidence = 90
                       /\ sent = <<>>
              /\ ~call.query.isString => ret.value.source = "error"

C28_Witness ==
    /\ call # Null
    /\ call.fn = "processQuery"
    /\ ~call.query.isString
    /\ ret # Null
    /\ ret.value.source = "error"
    /\ sent = <<>>

\* The messages the bot has sent to the chat
Replies == SelectSeq(sent, LAMBDA m : m.to = "telegram")

\* C29: the bot sends at most one reply per incoming message: a command is
\* answered only by its command handler and any other text only by the
\* assistant handler.
C29_AtMostOneReply ==
    (call # Null /\ call.fn = "processUpdate") => Len(Replies) <= 1

\* C30: every command the bot advertises in its /start and /help messages has
\* been answered with a reply once the message carrying it has been
\* dispatched to the handlers.
C30_AdvertisedCommandsAnswered ==
    (/\ call # Null
     /\ call.fn = "processUpdate"
     /\ call.step = "dispatched"
     /\ call.message.hasText
     /\ Len(call.message.text) = 1
     /\ call.message.text[1] \in AdvertisedCommands)
        => Replies # <<>>

====
